---- MODULE Spec2Model ----
(***************************************************************************)
(* Model of the chat-assistant front end: the session store and the       *)
(* authentication client (src/lib/aws/auth.ts), the chat API client       *)
(* (src/lib/aws/api-client.ts), the chat hook (src/hooks/useAwsChat.ts)   *)
(* and the three edge chat handlers (supabase/functions/chat).            *)
(*                                                                         *)
(* JavaScript values are modelled as follows.  An undefined field is      *)
(* Absent (strings) or NoNum (numbers); the empty string "" and 0 are     *)
(* kept because the code tests fields by truthiness.  A text that is to   *)
(* be JSON-parsed is a record saying whether it parses and to what.       *)
(***************************************************************************)
EXTENDS Integers, Sequences, FiniteSets, TLC

\* ------------------------------------------------------------------ bounds
MaxNow == 450000
TickMs == 150000

\* --------------------------------------------------------- program constants
FiveMinutes == 5 * 60 * 1000
DefaultExpiresIn == 3600

\* ------------------------------------------------------------- JS values
Absent == "<undefined>"
NoNum == 0 - 1
RawText == "<not json>"

Truthy(s) == s # Absent /\ s # ""
TruthyNum(n) == n # NoNum /\ n # 0

\* a || b on strings, on numbers
OrElse(a, b) == IF Truthy(a) THEN a ELSE b
OrElseNum(a, b) == IF TruthyNum(a) THEN a ELSE b

VARIABLES
    now,        \* Date.now()
    storage,    \* localStorage[tokenStorageKey]: an AuthSession or NoSession
    authPc,     \* login / signup call: "idle", "await", "settled"
    authRet,    \* what the last settled login / signup returned or threw
    authIn,     \* the response the last settled auth request received
    rf,         \* refreshSession() calls, one per caller
    lo,         \* the logout() call
    api,        \* two sendChatMessage() calls: the response and the outcome
    useAuth,    \* useAwsAuth: session, user, isLoading, error
    analyticsConfigured,    \* AWS_CONFIG: the analytics endpoint is not the placeholder
    sessStore,  \* sessionStorage[sessionStorageKey]
    messages,   \* useAwsChat: the transcript
    isLoading,  \* useAwsChat
    error,      \* useAwsChat
    sessionIdRef,       \* useAwsChat: sessionIdRef.current
    analyticsHistory,   \* useAnalytics: the records tracked so far
    turn,       \* sendMessage() calls, one per slot
    save,       \* saveAnalytics() calls, one per slot
    sends,      \* number of sendMessage() calls so far
    edge,       \* an edge chat handler: request, upstream answer, response
    sessionIds,         \* useAnalytics: sessionIds.current
    feedbackRecords,    \* useAnalytics
    feedbackLog,        \* per message id, the latest trackFeedback() call
    tzOffset,           \* hours the local time zone is ahead of UTC
    dashboard           \* the last result of getAggregatedAnalytics()

authVars == <<now, storage, authPc, authRet, authIn, rf, lo>>
apiVars == <<api>>
chatVars == <<analyticsConfigured, sessStore, messages, isLoading, error,
              sessionIdRef, analyticsHistory, turn, save, sends>>
edgeVars == <<edge>>
feedbackVars == <<feedbackRecords, feedbackLog, tzOffset>>
analyticsVars == <<sessionIds, feedbackVars, dashboard>>
useAuthVars == <<useAuth>>
nonAuthVars == <<apiVars, useAuthVars, chatVars, edgeVars, analyticsVars>>
vars == <<authVars, apiVars, useAuthVars, chatVars, edgeVars, analyticsVars>>

\* ------------------------------------------------------------ AuthSession
Tokens == {"t1", "t2"}
RefreshTokens == {"r1"}
Users == {"u1", "u2"}

NoSession ==
    [token |-> Absent, refreshToken |-> Absent, expiresAt |-> 0, user |-> Absent]

\* --------------------------------------------------- auth endpoint responses
AuthPayload(e, m, t, r, x, u) ==
    [error |-> e, message |-> m, token |-> t, refreshToken |-> r,
     expiresIn |-> x, user |-> u]

EmptyPayload == AuthPayload(Absent, Absent, Absent, Absent, NoNum, Absent)

AuthPayloads ==
    { AuthPayload(e, m, t, r, x, u) :
        e \in {Absent, "", "denied"}, m \in {Absent, "msg"},
        t \in {Absent} \cup Tokens, r \in {Absent} \cup RefreshTokens,
        x \in {NoNum, 0, 300}, u \in {Absent} \cup Users }

\* payloads carried inside a proxy envelope
InnerPayloads ==
    { AuthPayload(e, m, t, Absent, x, u) :
        e \in {Absent, "denied"}, m \in {Absent, "msg"},
        t \in {Absent, "t2"}, x \in {NoNum, 300}, u \in {Absent, "u2"} }

\* the string in the body field of an envelope
AbsentText == [kind |-> "absent", p |-> EmptyPayload]
EmptyText  == [kind |-> "empty", p |-> EmptyPayload]
NotJsonText == [kind |-> "raw", p |-> EmptyPayload]
NullText   == [kind |-> "null", p |-> EmptyPayload]
ObjText(p) == [kind |-> "obj", p |-> p]

\* what response.json() is applied to
NotJsonBody == [kind |-> "notjson", statusCode |-> NoNum, body |-> AbsentText, p |-> EmptyPayload]
NullBody == [kind |-> "null", statusCode |-> NoNum, body |-> AbsentText, p |-> EmptyPayload]
DirectBody(p) == [kind |-> "obj", statusCode |-> NoNum, body |-> AbsentText, p |-> p]
EnvelopeBody(sc, text) == [kind |-> "obj", statusCode |-> sc, body |-> text, p |-> EmptyPayload]

AuthBodies ==
    {NotJsonBody, NullBody}
    \cup { DirectBody(p) : p \in AuthPayloads }
    \cup { EnvelopeBody(sc, t) : sc \in {200, 403},
             t \in {EmptyText, NotJsonText, NullText} \cup { ObjText(p) : p \in InnerPayloads } }
    \cup { EnvelopeBody(0, ObjText(AuthPayload(Absent, Absent, "t2", Absent, NoNum, "u2"))) }

AuthResponses == [ok : BOOLEAN, json : AuthBodies]

TruthyText(t) == t.kind \notin {"absent", "empty"}

\* The outcome of `await response.json()` followed by parseLambdaResponse:
\* threw = TRUE when one of them, or the first field access on the result,
\* throws (SyntaxError on a non-JSON body, TypeError on null).
parseLambdaResponse(json) ==
    IF json.kind = "notjson" THEN [threw |-> TRUE, err |-> "SyntaxError", p |-> EmptyPayload]
    ELSE IF json.kind = "null" THEN [threw |-> TRUE, err |-> "TypeError", p |-> EmptyPayload]
    ELSE IF TruthyNum(json.statusCode) /\ TruthyText(json.body)
         THEN IF json.body.kind = "raw"
                 THEN [threw |-> FALSE, err |-> "",
                       p |-> [EmptyPayload EXCEPT !.error = RawText]]
              ELSE IF json.body.kind = "null"
                 THEN [threw |-> TRUE, err |-> "TypeError", p |-> EmptyPayload]
              ELSE [threw |-> FALSE, err |-> "", p |-> json.body.p]
    ELSE [threw |-> FALSE, err |-> "", p |-> json.p]

\* ------------------------------------------------------------ session store
\* getStoredSession() without the expiry test of line 60
getStoredSession_NoExpiry(st, t) == st

\* lines 51-68
getStoredSession(st, t) ==
    IF st = NoSession THEN NoSession
    ELSE IF st.expiresAt < t THEN NoSession
    ELSE st

\* localStorage after getStoredSession() has run
StorageAfterGet(st, t) ==
    IF st # NoSession /\ st.expiresAt < t THEN NoSession ELSE st

getAuthToken(st, t) == getStoredSession(st, t).token

getCurrentUser(st, t) == getStoredSession(st, t).user

\* line 73: storeSession; line 80: clearSession
storeSession(session) == session

clearSession == NoSession

\* ------------------------------------------------------- login and signup
AuthKinds == {"login", "signup"}

\* lines 140-145 / 175-180: the session built from a parsed payload at time t
NewSession(p, t) ==
    [token |-> p.token, refreshToken |-> p.refreshToken,
     expiresAt |-> t + OrElseNum(p.expiresIn, DefaultExpiresIn) * 1000,
     user |-> p.user]

Rejected(msg) == [ok |-> FALSE, err |-> msg, session |-> NoSession]
Resolved(session) == [ok |-> TRUE, err |-> "", session |-> session]

\* login without the error-field test of line 132
LoginFails_StatusOnly(ok, p) == ~ok

\* lines 132-134: does login throw on this response
LoginFails(ok, p) == ~ok \/ Truthy(p.error)

\* lines 129-148: login() from the moment the fetch has resolved
login(resp, t) ==
    LET d == parseLambdaResponse(resp.json) IN
    IF d.threw THEN Rejected(d.err)
    ELSE IF LoginFails(resp.ok, d.p)
        THEN Rejected(OrElse(d.p.error, OrElse(d.p.message, "Login failed")))
    ELSE IF ~Truthy(d.p.token) \/ ~Truthy(d.p.user)
        THEN Rejected("Invalid auth response: missing token or user")
    ELSE Resolved(NewSession(d.p, t))

\* lines 167-169
SignupFails(ok, p) == ~ok \/ Truthy(p.error)

\* lines 164-183: signup() from the moment the fetch has resolved
signup(resp, t) ==
    LET d == parseLambdaResponse(resp.json) IN
    IF d.threw THEN Rejected(d.err)
    ELSE IF SignupFails(resp.ok, d.p)
        THEN Rejected(OrElse(d.p.error, OrElse(d.p.message, "Signup failed")))
    ELSE IF ~Truthy(d.p.token) \/ ~Truthy(d.p.user)
        THEN Rejected("Invalid auth response: missing token or user")
    ELSE Resolved(NewSession(d.p, t))

\* what the caller of an auth request saw: the HTTP status class and the
\* payload after envelope unwrapping
Seen(resp) ==
    LET d == parseLambdaResponse(resp.json) IN
    [net |-> "response", ok |-> resp.ok, threw |-> d.threw,
     error |-> d.p.error, message |-> d.p.message, token |-> d.p.token,
     expiresIn |-> d.p.expiresIn, user |-> d.p.user]

SeenNothing ==
    [net |-> "none", ok |-> FALSE, threw |-> FALSE, error |-> Absent,
     message |-> Absent, token |-> Absent, expiresIn |-> NoNum, user |-> Absent]

SeenNetworkError == [SeenNothing EXCEPT !.net = "throw"]

NoRet == [kind |-> "none", ok |-> FALSE, err |-> "", session |-> NoSession]

\* login() / signup() up to its await
AuthStartDo(k) ==
    /\ authPc[k] = "idle"
    /\ authPc' = [authPc EXCEPT ![k] = "await"]
    /\ UNCHANGED <<now, storage, authRet, authIn, rf, lo>>

AuthStart(k) == AuthStartDo(k) /\ UNCHANGED nonAuthVars

AuthSettle(k, out, seen) ==
    /\ authPc' = [authPc EXCEPT ![k] = "settled"]
    /\ authRet' = [kind |-> k, ok |-> out.ok, err |-> out.err, session |-> out.session]
    /\ authIn' = seen
    /\ storage' = IF out.ok THEN storeSession(out.session) ELSE storage
    /\ UNCHANGED <<now, rf, lo, nonAuthVars>>

\* the caller of login() / signup() takes the result
AuthReturnDo(k) ==
    /\ authPc[k] = "settled"
    /\ authPc' = [authPc EXCEPT ![k] = "idle"]
    /\ authRet' = NoRet
    /\ authIn' = SeenNothing
    /\ UNCHANGED <<now, storage, rf, lo>>

AuthReturn(k) == AuthReturnDo(k) /\ UNCHANGED nonAuthVars

LoginStart == AuthStart("login")

LoginReturn == AuthReturn("login")

SignupReturn == AuthReturn("signup")

\* the auth endpoint answers login() with one of the given responses
LoginCompleteWith(responses) ==
    /\ authPc["login"] = "await"
    /\ \E resp \in responses : AuthSettle("login", login(resp, now), Seen(resp))

LoginComplete == LoginCompleteWith(AuthResponses)

\* line 120: the fetch itself rejects
LoginNetFail ==
    /\ authPc["login"] = "await"
    /\ AuthSettle("login", Rejected("NetworkError"), SeenNetworkError)

SignupStart == AuthStart("signup")

\* the auth endpoint answers signup() with one of the given responses
SignupCompleteWith(responses) ==
    /\ authPc["signup"] = "await"
    /\ \E resp \in responses : AuthSettle("signup", signup(resp, now), Seen(resp))

SignupComplete == SignupCompleteWith(AuthResponses)

SignupNetFail ==
    /\ authPc["signup"] = "await"
    /\ AuthSettle("signup", Rejected("NetworkError"), SeenNetworkError)

\* ------------------------------------------------------------------ time
Tick ==
    /\ now + TickMs <= MaxNow
    /\ now' = now + TickMs
    /\ UNCHANGED <<storage, authPc, authRet, authIn, rf, lo, nonAuthVars>>

\* ---------------------------------------------------------- refreshSession
RefreshCallers == {"direct", "chat1", "chat2", "save1", "save2"}

RfIdle ==
    [pc |-> "idle", refreshToken |-> Absent, user |-> Absent,
     issued |-> FALSE, ret |-> NoSession]

\* line 223
shouldRefresh(session, t) == session.expiresAt - t < FiveMinutes

\* lines 216-237: refreshSession() up to its first await
RefreshStartDo(c) ==
    /\ rf[c].pc = "idle"
    /\ LET session == getStoredSession(storage, now) IN
        /\ storage' = StorageAfterGet(storage, now)
        /\ IF ~Truthy(session.refreshToken)
              THEN rf' = [rf EXCEPT ![c] = [RfIdle EXCEPT !.pc = "done"]]
           ELSE IF ~shouldRefresh(session, now)
              THEN rf' = [rf EXCEPT ![c] = [RfIdle EXCEPT !.pc = "done", !.ret = session]]
           ELSE rf' = [rf EXCEPT ![c] =
                    [pc |-> "await", refreshToken |-> session.refreshToken,
                     user |-> session.user, issued |-> TRUE, ret |-> NoSession]]

RefreshStart(c) ==
    /\ RefreshStartDo(c)
    /\ UNCHANGED <<now, authPc, authRet, authIn, lo, nonAuthVars>>

\* line 242 without the error-field test
RefreshFails_NoErrorTest(ok, p) == ~ok \/ ~Truthy(p.token)

\* line 242
RefreshFails(ok, p) == ~ok \/ Truthy(p.error) \/ ~Truthy(p.token)

\* lines 247-252
RefreshedSession(p, old, t) ==
    [token |-> p.token,
     refreshToken |-> OrElse(p.refreshToken, old.refreshToken),
     expiresAt |-> t + OrElseNum(p.expiresIn, DefaultExpiresIn) * 1000,
     user |-> OrElse(p.user, old.user)]

\* lines 239-259: refreshSession() from the moment the fetch has resolved;
\* the stored session it leaves behind and returns (NoSession: cleared, null)
refreshSession(resp, old, t) ==
    LET d == parseLambdaResponse(resp.json) IN
    IF d.threw THEN clearSession
    ELSE IF RefreshFails(resp.ok, d.p) THEN clearSession
    ELSE storeSession(RefreshedSession(d.p, old, t))

RefreshSettle(c, session, seen) ==
    /\ storage' = session
    /\ rf' = [rf EXCEPT ![c] = [@ EXCEPT !.pc = "done", !.ret = session]]
    /\ authIn' = seen
    /\ UNCHANGED <<now, authPc, authRet, lo, nonAuthVars>>

\* the refresh endpoint answers with one of the given responses
RefreshCompleteWith(c, responses) ==
    /\ rf[c].pc = "await"
    /\ \E resp \in responses :
          RefreshSettle(c, refreshSession(resp, rf[c], now), Seen(resp))

RefreshComplete(c) == RefreshCompleteWith(c, AuthResponses)

\* lines 256-259: the fetch rejects
RefreshCatch == clearSession

RefreshNetFail(c) ==
    /\ rf[c].pc = "await"
    /\ RefreshSettle(c, RefreshCatch, SeenNetworkError)

\* the caller of refreshSession() takes the result
RefreshReturn(c) ==
    /\ rf[c].pc = "done"
    /\ rf' = [rf EXCEPT ![c] = RfIdle]
    /\ authIn' = SeenNothing
    /\ UNCHANGED <<now, storage, authPc, authRet, lo, nonAuthVars>>

\* ------------------------------------------------------------------ logout
LoIdle == [pc |-> "idle", token |-> Absent, result |-> "none", net |-> "none"]

LogoutOutcomes == {"ok", "status", "throw"}

\* lines 190-205: logout() up to its await
LogoutStartDo ==
    /\ lo.pc = "idle"
    /\ LET token == getAuthToken(storage, now) IN
        /\ storage' = clearSession
        /\ lo' = IF Truthy(token)
                   THEN [pc |-> "await", token |-> token, result |-> "none", net |-> "none"]
                   ELSE [pc |-> "done", token |-> token, result |-> "resolved", net |-> "none"]
    /\ UNCHANGED <<now, authPc, authRet, authIn, rf>>

LogoutStart == LogoutStartDo /\ UNCHANGED nonAuthVars

\* logout() without the try/catch around its fetch
LogoutResult_NoCatch(net) == IF net = "throw" THEN "rejected" ELSE "resolved"

\* lines 197-209: how logout() settles for an outcome of its fetch
LogoutResult(net) == "resolved"

LogoutComplete ==
    /\ lo.pc = "await"
    /\ \E net \in LogoutOutcomes :
          lo' = [lo EXCEPT !.pc = "done", !.result = LogoutResult(net), !.net = net]
    /\ UNCHANGED <<now, storage, authPc, authRet, authIn, rf, nonAuthVars>>

\* the caller of logout() continues
LogoutReturnDo ==
    /\ lo.pc = "done"
    /\ lo' = LoIdle
    /\ UNCHANGED <<now, storage, authPc, authRet, authIn, rf>>

LogoutReturn == LogoutReturnDo /\ UNCHANGED nonAuthVars

\* ------------------------------------------------------- the auth client
\* no call of the auth client is in progress
Quiet ==
    /\ \A k \in AuthKinds : authPc[k] = "idle"
    /\ \A c \in RefreshCallers : rf[c].pc = "idle"
    /\ lo.pc = "idle"

AuthInitWith(session) ==
    /\ now = 0
    /\ storage = session
    /\ authPc = [k \in AuthKinds |-> "idle"]
    /\ authRet = NoRet
    /\ authIn = SeenNothing
    /\ rf = [c \in RefreshCallers |-> RfIdle]
    /\ lo = LoIdle

AuthInit == AuthInitWith(NoSession)


\* The auth client driven by a caller that awaits each call before the next.
NextAuth ==
    \/ Tick
    \/ (Quiet /\ LoginStart) \/ LoginComplete \/ LoginNetFail \/ LoginReturn
    \/ (Quiet /\ SignupStart) \/ SignupComplete \/ SignupNetFail \/ SignupReturn
    \/ (Quiet /\ RefreshStart("direct")) \/ RefreshComplete("direct")
    \/ RefreshNetFail("direct") \/ RefreshReturn("direct")
    \/ (Quiet /\ LogoutStart) \/ LogoutComplete \/ LogoutReturn

\* ======================================================================
\* Claims about the authentication client, checked under SpecAuth
\* ======================================================================

\* a refreshSession() call by caller c leaves "idle" in this step
RefreshCalled(c) == rf[c].pc = "idle" /\ rf'[c].pc # "idle"

\* C1 (as stated): for every stored session, refreshSession() called while
\* expiresAt - now >= 5 minutes issues no request, leaves the stored session
\* unchanged and returns it; called while expiresAt - now < 5 minutes it
\* issues a request to the refresh endpoint.
C1_RefreshNoOpOrRequest ==
    [][\A c \in RefreshCallers :
        (RefreshCalled(c) /\ storage # NoSession) =>
            IF storage.expiresAt - now >= FiveMinutes
               THEN /\ rf'[c].pc = "done" /\ ~rf'[c].issued
                    /\ storage' = storage
                    /\ rf'[c].ret = storage
               ELSE rf'[c].pc = "await" /\ rf'[c].issued]_vars

\* the ways the claim lists for a refresh request to fail
RefreshRequestFailed(seen) ==
    \/ seen.net = "throw"
    \/ seen.threw
    \/ ~seen.ok
    \/ Truthy(seen.error)
    \/ ~Truthy(seen.token)

\* C2: whenever refreshSession() issued a request and the request failed
\* (non-OK status, a non-empty error field in the parsed payload, a missing
\* token, a thrown network or parse error), the stored session is cleared and
\* refreshSession() returns null.
C2_FailedRefreshClears ==
    \A c \in RefreshCallers :
        (rf[c].pc = "done" /\ rf[c].issued /\ RefreshRequestFailed(authIn)) =>
            storage = NoSession /\ rf[c].ret = NoSession

\* C2 witness: a session with a refresh token was stored, the refresh
\* request came back OK with an error field, and the store is now empty.
C2_Witness ==
    /\ rf["direct"].pc = "done" /\ rf["direct"].issued
    /\ Truthy(rf["direct"].refreshToken)
    /\ authIn.net = "response" /\ authIn.ok /\ Truthy(authIn.error)
    /\ Truthy(authIn.token)
    /\ storage = NoSession

\* C3: logout() has removed the stored session by the time its request is
\* in flight, and for every outcome of that request (success, error status,
\* thrown network error) it completes normally with the session still absent.
C3_LogoutClearsFirst ==
    /\ lo.pc = "await" => storage = NoSession
    /\ lo.pc = "done" => lo.result = "resolved" /\ storage = NoSession

\* C3 witness: a logged-in user logged out and the logout request threw.
C3_Witness ==
    /\ lo.pc = "done" /\ Truthy(lo.token) /\ lo.net = "throw"
    /\ lo.result = "resolved" /\ storage = NoSession

AuthSettled == \E k \in AuthKinds : authPc[k] = "settled"

\* C4 (as stated): login and signup fail, returning no session, whenever the
\* HTTP status is not OK, the parsed payload carries an error field or a
\* message field, token is absent or user is absent.
C4_AuthFailsOnErrorOrMessage ==
    (/\ AuthSettled
     /\ authIn.net = "response" /\ ~authIn.threw
     /\ \/ ~authIn.ok
        \/ Truthy(authIn.error)
        \/ Truthy(authIn.message)
        \/ ~Truthy(authIn.token)
        \/ ~Truthy(authIn.user))
    => ~authRet.ok /\ authRet.session = NoSession

\* C4 (amended): login and signup fail, returning no session, whenever the
\* HTTP status is not OK, the parsed payload carries a non-empty error field,
\* token is absent or user is absent; a message field alone is no failure.
C4_AuthFailureCases ==
    (/\ AuthSettled
     /\ authIn.net = "response"
     /\ \/ authIn.threw
        \/ ~authIn.ok
        \/ Truthy(authIn.error)
        \/ ~Truthy(authIn.token)
        \/ ~Truthy(authIn.user))
    => ~authRet.ok /\ authRet.session = NoSession

\* C4 witness: signup received an OK response with a token but no user and
\* was rejected.
C4_Witness ==
    /\ authPc["signup"] = "settled"
    /\ authIn.net = "response" /\ authIn.ok /\ ~Truthy(authIn.error)
    /\ Truthy(authIn.token) /\ ~Truthy(authIn.user)
    /\ ~authRet.ok /\ authRet.session = NoSession

\* C18 (as stated): when the stored session has no refresh token,
\* refreshSession() issues no request, leaves storage unchanged and returns
\* that stored session, whatever its expiry time.
C18_NoRefreshTokenReturnsSession ==
    [][\A c \in RefreshCallers :
        (RefreshCalled(c) /\ storage # NoSession /\ ~Truthy(storage.refreshToken)) =>
            /\ rf'[c].pc = "done" /\ ~rf'[c].issued
            /\ storage' = storage
            /\ rf'[c].ret = storage]_vars

\* a login() or signup() call settles successfully in this step
AuthSucceeds(k) == authPc[k] = "await" /\ authPc'[k] = "settled" /\ authRet'.ok

\* the lifetime in seconds the claim prescribes: 3600 only without expiresIn
LifetimeIfAbsent(expiresIn) ==
    IF expiresIn = NoNum THEN DefaultExpiresIn ELSE expiresIn

\* C19 (as stated): on a successful login or signup the session persisted in
\* storage equals the session returned, has token and user from the payload
\* and expiresAt = now + (expiresIn ?? 3600) * 1000, so that an explicitly
\* supplied expiresIn, 0 included, is used as given.
C19_SessionFromPayload ==
    [][\A k \in AuthKinds :
        AuthSucceeds(k) =>
            /\ storage' = authRet'.session
            /\ storage'.token = authIn'.token
            /\ storage'.user = authIn'.user
            /\ storage'.expiresAt = now + LifetimeIfAbsent(authIn'.expiresIn) * 1000]_vars

\* ======================================================================
\* The chat API client (api-client.ts)
\* ======================================================================
RateLimitMsg == "Rate limit exceeded. Please try again later."
AuthRequiredMsg == "Authentication required. Please log in."
ApiErrorMsg(status) == "API error: " \o ToString(status)
LambdaErrorMsg(statusCode) == "Lambda error: " \o ToString(statusCode)
ParseFailedMsg(text) ==
    "Failed to parse Lambda response body: " \o (IF text.kind = "raw" THEN RawText ELSE "")

SessionIds == {"s1", "s2"}

\* AnalyticsMetadata as far as the client looks at it
NoAnalytics == [present |-> FALSE, session_id |-> Absent, total_tokens |-> 0]
Analytics(sid, n) == [present |-> TRUE, session_id |-> sid, total_tokens |-> n]

ChatPayload(e, m, c, r, a, s) ==
    [error |-> e, message |-> m, content |-> c, response |-> r,
     analytics |-> a, sources |-> s]

EmptyChatPayload == ChatPayload(Absent, Absent, Absent, Absent, NoAnalytics, Absent)

ChatPayloads ==
    { ChatPayload(e, m, c, Absent, NoAnalytics, Absent) :
        e \in {Absent, "denied"}, m \in {Absent, "msg"}, c \in {Absent, "hi"} }
    \cup { ChatPayload(Absent, Absent, c, "resp", Analytics(sid, 7), "src") :
        c \in {"", "hi"}, sid \in {Absent} \cup SessionIds }

InnerChatPayloads ==
    { ChatPayload("denied", Absent, Absent, Absent, NoAnalytics, Absent),
      ChatPayload(Absent, "msg", Absent, Absent, NoAnalytics, Absent),
      ChatPayload(Absent, Absent, "hi", Absent, NoAnalytics, Absent),
      ChatPayload(Absent, Absent, "hi", Absent, Analytics("s2", 7), "src"),
      EmptyChatPayload }

ChatText(kind, p) == [kind |-> kind, p |-> p]
NoChatText == ChatText("absent", EmptyChatPayload)

ChatTexts ==
    { ChatText(k, EmptyChatPayload) : k \in {"empty", "raw", "null"} }
    \cup { ChatText("obj", p) : p \in InnerChatPayloads }

ChatJson(kind, sc, text, p) == [kind |-> kind, statusCode |-> sc, body |-> text, p |-> p]

ChatBodies ==
    { ChatJson(k, NoNum, NoChatText, EmptyChatPayload) : k \in {"notjson", "null"} }
    \cup { ChatJson("obj", NoNum, NoChatText, p) : p \in ChatPayloads }
    \cup { ChatJson("obj", sc, t, EmptyChatPayload) : sc \in {200, 403}, t \in ChatTexts }

HttpStatuses == {200, 401, 403, 429, 500}

ChatResponses == [status : HttpStatuses, json : ChatBodies]

\* response.ok
HttpOk(status) == status >= 200 /\ status <= 299

\* lines 38-45
isLambdaProxyResponse(data) ==
    data.kind = "obj" /\ data.statusCode # NoNum /\ data.body.kind # "absent"

\* lines 50-59: the parsed value (null: JSON null)
apiParseLambdaResponse(data) ==
    IF isLambdaProxyResponse(data)
       THEN IF data.body.kind \in {"raw", "empty"}
               THEN [st |-> "throw", err |-> ParseFailedMsg(data.body), p |-> EmptyChatPayload]
            ELSE IF data.body.kind = "null"
               THEN [st |-> "null", err |-> "", p |-> EmptyChatPayload]
            ELSE [st |-> "ok", err |-> "", p |-> data.body.p]
    ELSE IF data.kind = "null"
       THEN [st |-> "null", err |-> "", p |-> EmptyChatPayload]
    ELSE [st |-> "ok", err |-> "", p |-> data.p]

\* the empty sources list []
NoSources == "[]"

ChatError(msg) ==
    [ok |-> FALSE, err |-> msg, content |-> "", analytics |-> NoAnalytics, sources |-> Absent]

ChatResult(content, analytics, sources) ==
    [ok |-> TRUE, err |-> "", content |-> content, analytics |-> analytics, sources |-> sources]

\* lines 150-162: the analytics record made up when the body has none
DefaultAnalytics(sessionId) == Analytics(sessionId, 0)

\* lines 125-135: a non-OK HTTP status
HttpErrorOutcome(status, data) ==
    IF status = 429 THEN ChatError(RateLimitMsg)
    ELSE IF status = 401 \/ status = 403 THEN ChatError(AuthRequiredMsg)
    ELSE LET parsed == apiParseLambdaResponse(data) IN
         IF parsed.st = "throw" THEN ChatError(parsed.err)
         ELSE IF parsed.st = "null" THEN ChatError("TypeError")
         ELSE ChatError(OrElse(parsed.p.error, OrElse(parsed.p.message, ApiErrorMsg(status))))

\* lines 137-164: an OK HTTP status
HttpOkOutcome(data, sessionId) ==
    LET parsed == apiParseLambdaResponse(data) IN
    IF parsed.st = "throw" THEN ChatError(parsed.err)
    ELSE IF parsed.st = "null" THEN ChatError("TypeError")
    ELSE IF isLambdaProxyResponse(data) /\ data.statusCode >= 400
       THEN ChatError(OrElse(parsed.p.error, LambdaErrorMsg(data.statusCode)))
    ELSE ChatResult(OrElse(parsed.p.content, OrElse(parsed.p.response, OrElse(parsed.p.message, ""))),
                    IF parsed.p.analytics.present THEN parsed.p.analytics
                                                  ELSE DefaultAnalytics(sessionId),
                    OrElse(parsed.p.sources, NoSources))

\* lines 122-164: sendChatMessage() from the moment the fetch has resolved
sendChatMessage(resp, sessionId) ==
    IF resp.json.kind = "notjson" THEN ChatError("SyntaxError")
    ELSE IF ~HttpOk(resp.status) THEN HttpErrorOutcome(resp.status, resp.json)
    ELSE HttpOkOutcome(resp.json, sessionId)

\* ---------------------------------------------------------------------
\* sendChatMessage() applied to two responses, for a caller that is not
\* logged in (getHeaders() finds no session) and passes session id "s1"
ApiSlots == {1, 2}

NoResponse == [status |-> 0, json |-> ChatJson("notjson", NoNum, NoChatText, EmptyChatPayload)]

ApiInit ==
    api = [i \in ApiSlots |-> [called |-> FALSE, resp |-> NoResponse, out |-> ChatError("")]]

ApiCall(i) ==
    /\ \E resp \in ChatResponses :
          api' = [api EXCEPT ![i] =
                    [called |-> TRUE, resp |-> resp, out |-> sendChatMessage(resp, "s1")]]
    /\ UNCHANGED <<authVars, useAuthVars, chatVars, edgeVars, analyticsVars>>

NextApi == \E i \in ApiSlots : ApiCall(i)

\* ======================================================================
\* Claims about the chat API client, checked under SpecApi
\* ======================================================================
DeniedPayload == ChatPayload("denied", Absent, Absent, Absent, NoAnalytics, Absent)

\* {statusCode: 403, body: "{\"error\":\"denied\"}"}
EnvelopeDenied == ChatJson("obj", 403, ChatText("obj", DeniedPayload), EmptyChatPayload)

\* {error: "denied"}
DirectDenied == ChatJson("obj", NoNum, NoChatText, DeniedPayload)

\* C5 (as stated): the proxy envelope {statusCode: 403, body: {error: denied}}
\* and the direct body {error: denied} delivered with HTTP 403 give the
\* caller of sendChatMessage the same error.
C5_EnvelopeAndDirectSameError ==
    \A i, j \in ApiSlots :
        (/\ api[i].called /\ api[i].resp.json = EnvelopeDenied
         /\ api[j].called /\ api[j].resp.json = DirectDenied /\ api[j].resp.status = 403)
        => (~api[i].out.ok /\ ~api[j].out.ok /\ api[i].out.err = api[j].out.err)

\* C6 (as stated): HTTP 429 gives the rate-limit error and HTTP 401 / 403 the
\* authentication-required error, whatever the response body is.
C6_StatusDecidesError ==
    \A i \in ApiSlots : api[i].called =>
        /\ api[i].resp.status = 429 => api[i].out = ChatError(RateLimitMsg)
        /\ api[i].resp.status \in {401, 403} => api[i].out = ChatError(AuthRequiredMsg)

\* the body after envelope unwrapping, when it is a JSON object
DecodedBody(json) ==
    IF json.kind # "obj" THEN EmptyChatPayload
    ELSE IF json.statusCode # NoNum /\ json.body.kind # "absent"
        THEN (IF json.body.kind = "obj" THEN json.body.p ELSE EmptyChatPayload)
    ELSE json.p

\* C7 (as stated): for a status other than 429 / 401 / 403, sendChatMessage
\* fails whenever the status is not OK, and whenever the decoded body has an
\* error or message field it fails with an error carrying that message, also
\* when the status is OK.
C7_ErrorOrMessageFieldFails ==
    \A i \in ApiSlots :
        (api[i].called /\ api[i].resp.status \notin {429, 401, 403}) =>
            LET d == DecodedBody(api[i].resp.json)
                msg == OrElse(d.error, d.message)
            IN  /\ ~HttpOk(api[i].resp.status) => ~api[i].out.ok
                /\ Truthy(msg) => (~api[i].out.ok /\ api[i].out.err = msg)

\* ======================================================================
\* The chat hook (useAwsChat.ts) over the API client (api-client.ts)
\* ======================================================================
MaxSends == 2

ChatSlots == {1}

ChatCaller(t) == IF t = 1 THEN "chat1" ELSE "chat2"
SaveCaller(t) == IF t = 1 THEN "save1" ELSE "save2"

UserContents == {"q"}

\* useAwsChat.ts lines 27-32
UserMessage(t, content) ==
    [id |-> t, role |-> "user", content |-> content, feedback |-> Absent]

\* useAwsChat.ts lines 63-72
AssistantMessage(t, content) ==
    [id |-> t + 1, role |-> "assistant", content |-> content, feedback |-> Absent]

\* posts: the POSTs to the chat endpoint issued for the current turn
TurnIdle ==
    [pc |-> "idle", reqSid |-> Absent, sent |-> Absent, last |-> "none", posts |-> 0]
SaveIdle == [pc |-> "idle", result |-> "none", refresh |-> "none", net |-> "none"]

\* what a settled refreshSession() call did: no request, a request that gave
\* a session, a request that failed
RefreshOutcome(r) ==
    IF ~r.issued THEN "none" ELSE IF r.ret = NoSession THEN "failed" ELSE "ok"

\* the stored sessions a chat starts from: logged out, a session that is
\* due for refresh, a session that is not
ChatInitSessions ==
    { NoSession,
      [token |-> "t1", refreshToken |-> "r1", expiresAt |-> TickMs, user |-> "u1"],
      [token |-> "t1", refreshToken |-> "r1", expiresAt |-> 3600000, user |-> "u1"] }

\* the responses of the refresh endpoint seen by the hook
HookAuthResponses ==
    { [ok |-> TRUE, json |-> DirectBody(AuthPayload(Absent, Absent, "t2", Absent, 300, Absent))],
      [ok |-> TRUE, json |-> DirectBody(AuthPayload("denied", Absent, Absent, Absent, NoNum, Absent))],
      [ok |-> FALSE, json |-> NotJsonBody] }

HookRefreshComplete(c) == RefreshCompleteWith(c, HookAuthResponses)

\* the responses of the chat endpoint seen by the hook
HookChatResponses ==
    { [status |-> 200, json |-> ChatJson("obj", NoNum, NoChatText, p)] :
        p \in { ChatPayload(Absent, Absent, "hi", Absent, NoAnalytics, Absent),
                ChatPayload(Absent, Absent, "hi", "resp", Analytics("s2", 7), "src"),
                ChatPayload(Absent, Absent, "hi", "resp", Analytics(Absent, 7), "src") } }
    \cup { [status |-> 429, json |-> DirectDenied],
           [status |-> 200, json |-> EnvelopeDenied] }

\* api-client.ts: getSessionId() that never looks at the cached id
StoreAfterGetSessionId_NoCache(store, fresh) == fresh

\* api-client.ts lines 87-96: sessionStorage after getSessionId(), fresh being
\* the id generateSessionId() would make
StoreAfterGetSessionId(store, fresh) == IF Truthy(store) THEN store ELSE fresh

\* api-client.ts lines 101-103
clearSessionId == Absent

\* api-client.ts line 110: the session id of the request
RequestSessionId(reqSid, storeAfter) == IF Truthy(reqSid) THEN reqSid ELSE storeAfter

\* api-client.ts line 171: the analytics endpoint is still the placeholder
SaveSkipped == ~analyticsConfigured

\* api-client.ts saveAnalytics() without its try/catch
SaveResult_NoCatch(net) == IF net = "throw" THEN "rejected" ELSE "resolved"

\* api-client.ts lines 170-189: how saveAnalytics() settles for an outcome of
\* its fetch
SaveResult(net) == "resolved"

SaveOutcomes == {"ok", "status", "throw"}

\* useAwsChat.ts lines 22-49 with api-client.ts lines 109, 65-66 and
\* auth.ts 216-237: sendMessage() up to its first suspension
SendMessage(t) ==
    /\ sends < MaxSends
    /\ turn[t].pc = "idle"
    /\ \E content \in UserContents :
          messages' = Append(messages, UserMessage(now, content))
    /\ isLoading' = TRUE
    /\ error' = Absent
    /\ turn' = [turn EXCEPT ![t] =
                  [pc |-> "headers", reqSid |-> sessionIdRef, sent |-> Absent,
                   last |-> "none", posts |-> 0]]
    /\ RefreshStartDo(ChatCaller(t))
    /\ sends' = sends + 1
    /\ UNCHANGED <<now, authPc, authRet, authIn, lo, apiVars, useAuthVars, edgeVars, analyticsVars,
                   analyticsConfigured,
                   sessStore, sessionIdRef, analyticsHistory, save>>

\* api-client.ts lines 66-74 and 109-120: refreshSession() has settled,
\* getHeaders() reads the token and sendChatMessage() issues its fetch
ChatFetch(t) ==
    /\ turn[t].pc = "headers"
    /\ rf[ChatCaller(t)].pc = "done"
    /\ rf' = [rf EXCEPT ![ChatCaller(t)] = RfIdle]
    /\ authIn' = SeenNothing
    /\ storage' = StorageAfterGet(storage, now)
    /\ \E fresh \in SessionIds :
          LET after == StoreAfterGetSessionId(sessStore, fresh) IN
          /\ sessStore' = IF Truthy(turn[t].reqSid) THEN sessStore ELSE after
          /\ turn' = [turn EXCEPT ![t] =
                        [@ EXCEPT !.pc = "fetch",
                                  !.sent = RequestSessionId(turn[t].reqSid, after),
                                  !.posts = @ + 1]]
    /\ UNCHANGED <<now, authPc, authRet, lo, apiVars, useAuthVars, edgeVars, analyticsVars,
                   analyticsConfigured, messages,
                   isLoading, error, sessionIdRef, analyticsHistory, save, sends>>

\* what getAggregatedAnalytics() returned is out of date
NoDashboard ==
    [fresh |-> FALSE, totalMessages |-> 0, totalTokens |-> 0, sessionsCount |-> 0,
     dailyUsage |-> <<>>]

\* useAnalytics (part_003) line 30 leaving the set as it is
AddSessionId_Forgotten(ids, analytics) == ids

\* useAnalytics (part_003) line 30: sessionIds.current.add()
AddSessionId(ids, analytics) == ids \cup {analytics.session_id}

\* useAnalytics (part_003) lines 28-31
trackAnalytics(analytics) ==
    /\ analyticsHistory' = Append(analyticsHistory, analytics)
    /\ sessionIds' = AddSessionId(sessionIds, analytics)
    /\ dashboard' = NoDashboard

\* useAwsChat.ts lines 51-74 and 80-82: sendChatMessage() resolved with data.
\* saveAnalytics(data.analytics) is started and not awaited; it runs up to
\* its first suspension (api-client.ts lines 171-180, auth.ts 216-237).
TurnSucceeds(t, data) ==
    /\ sessionIdRef' = IF Truthy(data.analytics.session_id)
                          THEN data.analytics.session_id ELSE sessionIdRef
    /\ trackAnalytics(data.analytics)
    /\ IF SaveSkipped
          THEN /\ save' = [save EXCEPT ![t] =
                             [SaveIdle EXCEPT !.pc = "done", !.result = "resolved"]]
               /\ UNCHANGED <<storage, rf>>
          ELSE /\ save' = [save EXCEPT ![t] =
                             [SaveIdle EXCEPT !.pc = "headers"]]
               /\ RefreshStartDo(SaveCaller(t))
    /\ messages' = Append(messages, AssistantMessage(now, data.content))
    /\ isLoading' = FALSE
    /\ turn' = [turn EXCEPT ![t] = [@ EXCEPT !.pc = "idle", !.last = "ok"]]
    /\ UNCHANGED error

\* a catch block that sends the request once more
AfterFailure_Retry(tn) == [tn EXCEPT !.pc = "idle", !.last = "failed", !.posts = @ + 1]

\* useAwsChat.ts lines 75-82: the turn after its catch and finally blocks
AfterFailure(tn) == [tn EXCEPT !.pc = "idle", !.last = "failed"]

\* useAwsChat.ts lines 75-82: sendChatMessage() rejected
TurnFails(t, msg) ==
    /\ error' = msg
    /\ isLoading' = FALSE
    /\ turn' = [turn EXCEPT ![t] = AfterFailure(turn[t])]
    /\ UNCHANGED <<storage, rf, sessionIdRef, analyticsHistory, sessionIds, dashboard,
                   save, messages>>

\* the chat endpoint answers with one of the given responses
ChatCompleteWith(t, responses) ==
    /\ turn[t].pc = "fetch"
    /\ \E resp \in responses :
          LET out == sendChatMessage(resp, turn[t].sent) IN
          IF out.ok THEN TurnSucceeds(t, out) ELSE TurnFails(t, out.err)
    /\ UNCHANGED <<now, authPc, authRet, authIn, lo, apiVars, useAuthVars, edgeVars, feedbackVars,
                   analyticsConfigured, sessStore, sends>>

ChatComplete(t) == ChatCompleteWith(t, HookChatResponses)

\* the fetch of the chat endpoint rejects
ChatNetFail(t) ==
    /\ turn[t].pc = "fetch"
    /\ TurnFails(t, "Failed to fetch")
    /\ UNCHANGED <<now, authPc, authRet, authIn, lo, apiVars, useAuthVars, edgeVars, feedbackVars,
                   analyticsConfigured, sessStore, sends>>

\* api-client.ts lines 66-74 and 179-185: refreshSession() has settled,
\* getHeaders() reads the token and saveAnalytics() issues its fetch
SavePost(t) ==
    /\ save[t].pc = "headers"
    /\ rf[SaveCaller(t)].pc = "done"
    /\ rf' = [rf EXCEPT ![SaveCaller(t)] = RfIdle]
    /\ authIn' = SeenNothing
    /\ storage' = StorageAfterGet(storage, now)
    /\ save' = [save EXCEPT ![t] =
                  [@ EXCEPT !.pc = "post", !.refresh = RefreshOutcome(rf[SaveCaller(t)])]]
    /\ UNCHANGED <<now, authPc, authRet, lo, apiVars, useAuthVars, edgeVars, analyticsVars,
                   analyticsConfigured, sessStore,
                   messages, isLoading, error, sessionIdRef, analyticsHistory, turn, sends>>

\* api-client.ts lines 181-188: the fetch of the analytics endpoint settles
SaveComplete(t) ==
    /\ save[t].pc = "post"
    /\ \E net \in SaveOutcomes :
          save' = [save EXCEPT ![t] =
                     [@ EXCEPT !.pc = "done", !.result = SaveResult(net), !.net = net]]
    /\ UNCHANGED <<authVars, apiVars, useAuthVars, edgeVars, analyticsVars,
                   analyticsConfigured, sessStore, messages,
                   isLoading, error, sessionIdRef, analyticsHistory, turn, sends>>

\* useAwsChat.ts lines 96-100
ClearMessages ==
    /\ messages # <<>> \/ Truthy(sessionIdRef) \/ Truthy(sessStore)
    /\ messages' = <<>>
    /\ sessionIdRef' = Absent
    /\ sessStore' = clearSessionId
    /\ UNCHANGED <<authVars, apiVars, useAuthVars, edgeVars, analyticsVars,
                   analyticsConfigured, isLoading, error,
                   analyticsHistory, turn, save, sends>>

\* the message ids feedback is given for: the ids of a user message and of
\* an assistant message created at time 0 (Date.now() and Date.now() + 1)
MessageIds == {0, 1}

NoFeedback == [rating |-> Absent, changed |-> FALSE]

ChatInitWith(configured) ==
    /\ analyticsConfigured = configured
    /\ sessStore = Absent
    /\ messages = <<>>
    /\ isLoading = FALSE
    /\ error = Absent
    /\ sessionIdRef = Absent
    /\ analyticsHistory = <<>>
    /\ turn = [t \in {1, 2} |-> TurnIdle]
    /\ save = [t \in {1, 2} |-> SaveIdle]
    /\ sends = 0

\* src/lib/aws/config.ts: the analytics endpoint defaults to the placeholder
ChatInit == ChatInitWith(FALSE)

\* no saveAnalytics() call of slot t is in progress
SaveSettled(t) == save[t].pc \in {"idle", "done"}

\* One chat: a turn is started once the previous turn and its analytics save
\* have settled; the user may clear the transcript and time may pass at any
\* moment.
NextChat ==
    \/ Tick
    \/ \E t \in ChatSlots :
          \/ (SaveSettled(t) /\ SendMessage(t))
          \/ HookRefreshComplete(ChatCaller(t)) \/ RefreshNetFail(ChatCaller(t))
          \/ ChatFetch(t)
          \/ ChatComplete(t) \/ ChatNetFail(t)
          \/ HookRefreshComplete(SaveCaller(t)) \/ RefreshNetFail(SaveCaller(t))
          \/ SavePost(t)
          \/ SaveComplete(t)
    \/ ClearMessages

\* ======================================================================
\* Claims about the chat hook, checked under SpecChat
\* ======================================================================
\* the last turn of slot t succeeded and no turn has started since
LastTurnSucceeded(t) == turn[t].pc = "idle" /\ turn[t].last = "ok"

\* C8: saveAnalytics never propagates a failure: whatever its session refresh
\* and its POST did (success, non-OK status, network error), its promise
\* resolves, and the chat turn that started it has appended the assistant
\* message and has left the hook not loading and with no error.
C8_SaveNeverFailsTheTurn ==
    \A t \in ChatSlots :
        save[t].pc = "done" =>
            /\ save[t].result = "resolved"
            /\ LastTurnSucceeded(t) =>
                  /\ error = Absent
                  /\ ~isLoading
                  /\ messages = <<>> \/ messages[Len(messages)].role = "assistant"

\* C8 witness: the token refresh of saveAnalytics failed and its POST threw,
\* the promise resolved and the transcript ends with the assistant message of
\* the turn, no error set.
C8_Witness ==
    /\ save[1].pc = "done" /\ save[1].refresh = "failed" /\ save[1].net = "throw"
    /\ save[1].result = "resolved"
    /\ LastTurnSucceeded(1)
    /\ Len(messages) = 2 /\ messages[2].role = "assistant"
    /\ error = Absent

\* sendChatMessage() of slot t issues its fetch in this step
IssuesFetch(t) == turn[t].pc = "headers" /\ turn'[t].pc = "fetch"

\* C9 (as stated): once getSessionId() has created a session id, every chat
\* turn sends that id to the chat endpoint until it is cleared, whatever the
\* upstream answered before.
C9_CreatedIdAlwaysSent ==
    [][\A t \in ChatSlots :
          (IssuesFetch(t) /\ Truthy(sessStore)) => turn'[t].sent = sessStore]_vars

\* C9 (amended): a turn started while the hook holds no adopted id, or the
\* created one, sends the id created by getSessionId() and leaves it cached;
\* a turn started while the hook holds an id adopted from a response sends
\* the adopted id; and the hook adopts the session_id of the analytics of
\* every successful response that carries one.
C9_CreatedIdSentUnlessAdopted ==
    [][\A t \in ChatSlots :
          /\ (IssuesFetch(t) /\ Truthy(sessStore) /\ turn[t].reqSid \in {Absent, sessStore})
                => (turn'[t].sent = sessStore /\ sessStore' = sessStore)
          /\ (IssuesFetch(t) /\ Truthy(turn[t].reqSid)) => turn'[t].sent = turn[t].reqSid
          /\ (turn[t].pc = "fetch" /\ turn'[t].last = "ok") =>
                LET a == analyticsHistory'[Len(analyticsHistory')] IN
                sessionIdRef' = IF Truthy(a.session_id) THEN a.session_id ELSE sessionIdRef
      ]_vars

\* C9 witness: the second turn of a conversation, started after a first turn
\* that succeeded, is sending the id getSessionId() created.
C9_Witness ==
    /\ sends = 2 /\ turn[1].pc = "fetch"
    /\ Len(messages) = 3
    /\ Truthy(sessStore) /\ turn[1].sent = sessStore /\ sessionIdRef = sessStore

\* the turn of slot t fails in this step
TurnFailed(t) == turn[t].pc = "fetch" /\ turn'[t].last = "failed"

\* C22: for each sendMessage turn at most one POST to the chat endpoint is
\* issued, whatever the outcome; a failed turn ends with the hook's error set
\* and no assistant message appended, and it issues no further request: the
\* next POST belongs to the next sendMessage call.
C22_NoRetries ==
    [][\A t \in ChatSlots :
          /\ turn'[t].posts <= 1
          /\ TurnFailed(t) =>
                /\ Truthy(error')
                /\ messages' = messages
                /\ turn'[t].pc = "idle" /\ turn'[t].posts = turn[t].posts
          /\ IssuesFetch(t) => turn[t].posts = 0
      ]_vars

\* C22 witness: a turn whose single POST failed has ended with the error set
\* and the transcript ending with the user's message.
C22_Witness ==
    /\ turn[1].pc = "idle" /\ turn[1].last = "failed" /\ turn[1].posts = 1
    /\ Truthy(error) /\ ~isLoading
    /\ messages # <<>> /\ messages[Len(messages)].role = "user"

\* the saveAnalytics() call of slot t takes a step: it starts, its
\* refreshSession() call moves, or its fetch is issued or settles
SaveSteps(t) == save'[t] # save[t] \/ rf'[SaveCaller(t)] # rf[SaveCaller(t)]

\* C30 (as stated): saveAnalytics(record) leaves the persisted auth session
\* and the persisted conversation session id unchanged, for every prior
\* state and every network outcome.
C30_SaveLeavesStorageAlone ==
    [][\A t \in ChatSlots :
          SaveSteps(t) => storage' = storage /\ sessStore' = sessStore]_vars

\* ======================================================================
\* The edge chat handlers: AI gateway (part_000), Lambda with API key
\* (part_001), Lambda proxy (supabase/functions/chat/index.ts)
\* ======================================================================
\* Texts are modelled by their length: NoNum an absent field, 0 the empty
\* string.
MaxContentLen == 2
MaxMessages == 2

Departments ==
    {"HR", "Finance", "IT", "Operations", "Legal", "General", "", Absent, "constructor"}

\* part_000 lines 55-60: the keys of the lookup tables
KnownDepartments == {"HR", "Finance", "IT", "Operations"}

\* the keys every object literal inherits from Object.prototype; looking one
\* up gives a function
InheritedKeys == {"constructor"}

GenericPrompt == "You are a helpful enterprise assistant."
ObjectFunction == "function Object() { [native code] }"

\* part_000 lines 55-63, part_001 lines 54-62:
\* departmentPrompts[department] || generic prompt
SystemPrompt(department) ==
    IF department \in KnownDepartments THEN "You are an " \o department \o " assistant."
    ELSE IF department \in InheritedKeys THEN ObjectFunction
    ELSE GenericPrompt

\* part_000 lines 55-63, part_001 lines 54-62: the length of the system
\* prompt as a string
PromptLength(department) ==
    IF department = "HR" THEN 181
    ELSE IF department = "Finance" THEN 178
    ELSE IF department = "IT" THEN 162
    ELSE IF department = "Operations" THEN 177
    ELSE IF department \in InheritedKeys THEN 35
    ELSE 84

\* a sources value: a list, a function, or no value
SourceList(items, count) == [kind |-> "list", items |-> items, count |-> count]
EmptySources == SourceList("", 0)
FunctionSources == [kind |-> "function", items |-> "", count |-> 0]
NoSourcesValue == [kind |-> "absent", items |-> "", count |-> 0]

\* part_000 lines 183-204, part_001 lines 186-207, chat/index.ts lines
\* 210-231: departmentSources[department] || []
generateSources(department) ==
    IF department \in KnownDepartments THEN SourceList(department, 2)
    ELSE IF department \in InheritedKeys THEN FunctionSources
    ELSE EmptySources

\* JSON.stringify leaves out a property whose value is a function
Serialized(value) == IF value.kind = "function" THEN NoSourcesValue ELSE value

\* part_000 lines 30-32: Math.ceil(text.length / 4)
estimateTokens(length) == (length + 3) \div 4

RECURSIVE SumLengths(_)
SumLengths(lens) == IF lens = <<>> THEN 0 ELSE Head(lens) + SumLengths(Tail(lens))

\* part_000 line 66 joining the message contents with nothing in between
JoinedLength_NoSeparator(lens) == SumLengths(lens)

\* part_000 line 66: the length of the message contents joined with " "
JoinedLength(lens) ==
    IF lens = <<>> THEN 0 ELSE SumLengths(lens) + (Len(lens) - 1)

\* part_000 line 67
InputTokens(lens, department) ==
    estimateTokens(JoinedLength(lens) + PromptLength(department))

EdgeRequest(kind, lens, department, sid) ==
    [kind |-> kind, messages |-> lens, department |-> department, session_id |-> sid]

\* a request body that is not JSON, or has no messages array
BadRequest == EdgeRequest("bad", <<>>, Absent, Absent)

EdgeRequests ==
    { BadRequest }
    \cup { EdgeRequest("ok", lens, d, sid) :
             lens \in UNION { [1..n -> 0..MaxContentLen] : n \in 0..MaxMessages },
             d \in Departments, sid \in {Absent, "s1"} }

\* the analytics object of an upstream body, any field possibly missing
UpAnalytics(i, o, t) ==
    [present |-> TRUE, input_tokens |-> i, output_tokens |-> o, total_tokens |-> t]
NoUpAnalytics ==
    [present |-> FALSE, input_tokens |-> NoNum, output_tokens |-> NoNum, total_tokens |-> NoNum]

UpAnalyticsChoices ==
    { NoUpAnalytics }
    \cup { UpAnalytics(i, o, t) : i \in {NoNum, 5}, o \in {NoNum, 3}, t \in {NoNum, 8} }

\* an upstream JSON object: choices[0].message.content for the gateway and
\* the Lambda, the LambdaResponseBody fields for the Lambda proxy
UpPayload(choice, e, r, c, m, a, s) ==
    [choice |-> choice, error |-> e, response |-> r, content |-> c, message |-> m,
     analytics |-> a, sources |-> s]

EmptyUpPayload ==
    UpPayload(NoNum, Absent, NoNum, NoNum, NoNum, NoUpAnalytics, NoSourcesValue)

\* the sources an upstream may send: none, a list of its own, an empty list
UpSources == {NoSourcesValue, SourceList("upstream", 1), EmptySources}

UpPayloads ==
    { UpPayload(ch, Absent, NoNum, NoNum, NoNum, NoUpAnalytics, NoSourcesValue) :
        ch \in {NoNum, 0, 4, 5} }
    \cup { UpPayload(5, Absent, 2, NoNum, NoNum, NoUpAnalytics, src) : src \in UpSources }
    \cup { UpPayload(NoNum, Absent, r, c, NoNum, a, NoSourcesValue) :
             r \in {NoNum, 2}, c \in {NoNum, 3}, a \in UpAnalyticsChoices }
    \cup { UpPayload(NoNum, "boom", NoNum, NoNum, 4, NoUpAnalytics, NoSourcesValue) }

InnerUpPayloads ==
    { UpPayload(NoNum, Absent, 2, NoNum, NoNum, a, NoSourcesValue) :
        a \in UpAnalyticsChoices }
    \cup { UpPayload(NoNum, Absent, 2, NoNum, NoNum, NoUpAnalytics, src) :
             src \in UpSources }
    \cup { UpPayload(NoNum, "boom", NoNum, NoNum, NoNum, NoUpAnalytics, NoSourcesValue) }

UpText(kind, p) == [kind |-> kind, p |-> p]
NoUpText == UpText("absent", EmptyUpPayload)

UpTexts ==
    { UpText(k, EmptyUpPayload) : k \in {"raw", "null"} }
    \cup { UpText("obj", p) : p \in InnerUpPayloads }

UpJson(kind, sc, text, p) == [kind |-> kind, statusCode |-> sc, body |-> text, p |-> p]

UpBodies ==
    { UpJson(k, NoNum, NoUpText, EmptyUpPayload) : k \in {"notjson", "null"} }
    \cup { UpJson("obj", NoNum, NoUpText, p) : p \in UpPayloads }
    \cup { UpJson("obj", sc, t, EmptyUpPayload) : sc \in {200, 429, 500}, t \in UpTexts }

UpStatuses == {200, 401, 402, 403, 429, 500}

Upstream(net, status, json) == [net |-> net, status |-> status, json |-> json]

\* the fetch of the upstream rejects
UpstreamDown == Upstream("throw", 0, UpJson("notjson", NoNum, NoUpText, EmptyUpPayload))

Upstreams ==
    { UpstreamDown }
    \cup { Upstream("response", s, j) : s \in UpStatuses, j \in UpBodies }

\* the id generateSessionId() makes
GeneratedSessionId == "generated"

EdgeAnalytics(sid, count, i, o, t, department, err) ==
    [present |-> TRUE, session_id |-> sid, invocation_count |-> count,
     input_tokens |-> i, output_tokens |-> o, total_tokens |-> t,
     department |-> department, error |-> err]

\* analytics: null
NullEdgeAnalytics ==
    [present |-> FALSE, session_id |-> Absent, invocation_count |-> 0,
     input_tokens |-> 0, output_tokens |-> 0, total_tokens |-> 0,
     department |-> Absent, error |-> FALSE]

EdgeResponse(status, err, content, analytics) ==
    [status |-> status, error |-> err, content |-> content, analytics |-> analytics,
     sources |-> NoSourcesValue]

\* the response body with its sources property, as JSON.stringify writes it
WithSources(response, sources) == [response EXCEPT !.sources = Serialized(sources)]

NoEdgeResponse == EdgeResponse(0, Absent, NoNum, NullEdgeAnalytics)

EdgeRateLimited ==
    EdgeResponse(429, "Rate limits exceeded, please try again later.", NoNum, NullEdgeAnalytics)

\* the catch block answering without an analytics record
EdgeCaught_NoAnalytics(msg) == EdgeResponse(500, msg, NoNum, NullEdgeAnalytics)

\* part_000 lines 153-179, part_001 lines 156-182, chat/index.ts lines
\* 180-206: the catch block
EdgeCaught(msg) ==
    EdgeResponse(500, msg, NoNum,
                 EdgeAnalytics(GeneratedSessionId, 0, 0, 0, 0, "Unknown", TRUE))

\* part_000 line 123, part_001 line 126
TotalTokens(inputTokens, outputTokens, up) == inputTokens + outputTokens

\* part_000 lines 116-151, part_001 lines 119-154: the upstream answered OK
CompletionResponse(req, up) ==
    IF up.json.kind = "notjson" THEN EdgeCaught("SyntaxError")
    ELSE IF up.json.kind = "null" THEN EdgeCaught("TypeError")
    ELSE LET assistantContent == OrElseNum(up.json.p.choice, 0)
             inputTokens == InputTokens(req.messages, req.department)
             outputTokens == estimateTokens(assistantContent)
         IN  WithSources(
                 EdgeResponse(200, Absent, assistantContent,
                     EdgeAnalytics(OrElse(req.session_id, GeneratedSessionId), 1,
                                   inputTokens, outputTokens,
                                   TotalTokens(inputTokens, outputTokens, up),
                                   OrElse(req.department, "General"), FALSE)),
                 generateSources(req.department))

\* part_000 lines 43-151: the AI gateway handler
GatewayHandler(req, keyConfigured, up) ==
    IF req.kind = "bad" THEN EdgeCaught("TypeError")
    ELSE IF ~keyConfigured THEN EdgeCaught("LOVABLE_API_KEY is not configured")
    ELSE IF up.net = "throw" THEN EdgeCaught("fetch failed")
    ELSE IF ~HttpOk(up.status)
        THEN IF up.status = 429 THEN EdgeRateLimited
             ELSE IF up.status = 402
                THEN EdgeResponse(402, "Payment required, please add funds.", NoNum,
                                  NullEdgeAnalytics)
             ELSE EdgeCaught("AI gateway error: " \o ToString(up.status))
    ELSE CompletionResponse(req, up)

EdgeAccessDenied ==
    EdgeResponse(403, "Access denied. Check Lambda API key configuration.", NoNum,
                 NullEdgeAnalytics)

\* part_001 lines 43-154: the Lambda handler
LambdaHandler(req, up) ==
    IF req.kind = "bad" THEN EdgeCaught("TypeError")
    ELSE IF up.net = "throw" THEN EdgeCaught("fetch failed")
    ELSE IF ~HttpOk(up.status)
        THEN IF up.status = 429 THEN EdgeRateLimited
             ELSE IF up.status = 403 THEN EdgeAccessDenied
             ELSE EdgeCaught("AWS Lambda error: " \o ToString(up.status))
    ELSE CompletionResponse(req, up)

\* chat/index.ts lines 107-121: statusCode and bodyContent (kind "null": a
\* body that is JSON null)
ProxyDecoded(up) ==
    IF up.json.statusCode # NoNum /\ up.json.body.kind # "absent"
       THEN IF up.json.body.kind = "raw"
               THEN [statusCode |-> up.json.statusCode, kind |-> "obj",
                     p |-> [EmptyUpPayload EXCEPT !.response = 1]]
            ELSE [statusCode |-> up.json.statusCode, kind |-> up.json.body.kind,
                  p |-> up.json.body.p]
    ELSE [statusCode |-> up.status, kind |-> "obj", p |-> up.json.p]

\* chat/index.ts lines 151-166
ProxyAnalytics(req, a) ==
    EdgeAnalytics(OrElse(req.session_id, GeneratedSessionId), 1,
                  OrElseNum(a.input_tokens, 0),
                  OrElseNum(a.output_tokens, 0),
                  OrElseNum(a.total_tokens, 0),
                  OrElse(req.department, "General"), FALSE)

\* chat/index.ts line 175: bodyContent.sources || generateDefaultSources()
ProxySources(req, body) ==
    IF body.sources.kind = "list" THEN body.sources ELSE generateSources(req.department)

\* chat/index.ts lines 52-178: the Lambda proxy handler
ProxyHandler(req, up) ==
    IF req.kind = "bad" THEN EdgeCaught("TypeError")
    ELSE IF up.net = "throw" THEN EdgeCaught("fetch failed")
    ELSE IF up.json.kind = "notjson" THEN EdgeCaught("Invalid Lambda response format")
    ELSE IF up.json.kind = "null" THEN EdgeCaught("TypeError")
    ELSE LET d == ProxyDecoded(up) IN
         IF d.statusCode >= 400 \/ ~HttpOk(up.status)
            THEN IF d.statusCode = 429 THEN EdgeRateLimited
                 ELSE IF d.statusCode = 403 \/ d.statusCode = 401 THEN EdgeAccessDenied
                 ELSE IF d.kind = "null" THEN EdgeCaught("TypeError")
                 ELSE EdgeCaught(OrElse(d.p.error, "Lambda error: " \o ToString(d.statusCode)))
         ELSE IF d.kind = "null" THEN EdgeCaught("TypeError")
         ELSE WithSources(
                  EdgeResponse(200, Absent,
                      OrElseNum(d.p.response, OrElseNum(d.p.content, OrElseNum(d.p.message, 0))),
                      ProxyAnalytics(req, d.p.analytics)),
                  ProxySources(req, d.p))

\* ---------------------------------------------------------------------
\* One request handled by one of the three handlers
EdgeIdle(req, up) ==
    [req |-> req, up |-> up, variant |-> "none", keyConfigured |-> FALSE,
     system |-> Absent, out |-> NoEdgeResponse]

\* part_000 lines 81-84, part_001 lines 81-84: the system message of the
\* upstream request (the Lambda proxy handler sends none); Absent when no
\* request is made
SystemMessage(variant, req, keyConfigured) ==
    IF req.kind = "bad" \/ variant = "proxy" THEN Absent
    ELSE IF variant = "gateway" /\ ~keyConfigured THEN Absent
    ELSE SystemPrompt(req.department)

EdgeInit == edge = EdgeIdle(BadRequest, UpstreamDown)

EdgeServed(variant, keyConfigured, out) ==
    /\ edge.variant = "none"
    /\ edge' = [edge EXCEPT !.variant = variant, !.keyConfigured = keyConfigured,
                            !.system = SystemMessage(variant, edge.req, keyConfigured),
                            !.out = out]
    /\ UNCHANGED <<authVars, apiVars, useAuthVars, chatVars, analyticsVars>>

GatewayServe ==
    \E keyConfigured \in BOOLEAN :
        EdgeServed("gateway", keyConfigured,
                   GatewayHandler(edge.req, keyConfigured, edge.up))

LambdaServe == EdgeServed("lambda", FALSE, LambdaHandler(edge.req, edge.up))

ProxyServe == EdgeServed("proxy", FALSE, ProxyHandler(edge.req, edge.up))

NextEdge == GatewayServe \/ LambdaServe \/ ProxyServe

\* ======================================================================
\* Claims about the edge handlers, checked under SpecEdge
\* ======================================================================
\* C10 (as stated): every analytics record produced by an edge chat handler,
\* on the success path and on the error path of each of the three variants,
\* has total_tokens = input_tokens + output_tokens.
C10_TotalIsInputPlusOutput ==
    (edge.variant # "none" /\ edge.out.analytics.present) =>
        edge.out.analytics.total_tokens
            = edge.out.analytics.input_tokens + edge.out.analytics.output_tokens

\* the handler got as far as its upstream call
UpstreamCalled ==
    /\ edge.variant # "none"
    /\ edge.req.kind = "ok"
    /\ edge.variant = "gateway" => edge.keyConfigured

\* the upstream answered with an HTTP response
UpstreamAnswered == UpstreamCalled /\ edge.up.net = "response"

\* C11 (as stated): in every edge handler variant an upstream HTTP 429 gives
\* status 429 with the fixed rate-limit error and analytics null, whatever
\* the upstream body contains.
C11_Upstream429IsRateLimit ==
    (UpstreamAnswered /\ edge.up.status = 429) => edge.out = EdgeRateLimited

\* C12 (as stated): in every edge handler variant an upstream 402 gives status
\* 402 with a fixed message, an upstream 403 gives status 403 with a fixed
\* message, and every other non-OK upstream status except 429 gives 500.
C12_UpstreamStatusMapping ==
    UpstreamAnswered =>
        /\ edge.up.status = 402 =>
              (edge.out.status = 402 /\ edge.out.error = "Payment required, please add funds.")
        /\ edge.up.status = 403 => edge.out = EdgeAccessDenied
        /\ (~HttpOk(edge.up.status) /\ edge.up.status \notin {429, 402, 403}) =>
              edge.out.status = 500

\* the upstream statuses a variant answers with a fixed response
MappedStatuses(variant) ==
    IF variant = "gateway" THEN {429, 402}
    ELSE IF variant = "lambda" THEN {429, 403}
    ELSE {429, 403, 401}

\* an error is thrown while the handler processes the request: unreadable
\* request body, missing credential, upstream network failure, unparsable
\* upstream response, unmapped upstream status
ErrorThrown ==
    /\ edge.variant # "none"
    /\ \/ edge.req.kind = "bad"
       \/ edge.variant = "gateway" /\ ~edge.keyConfigured
       \/ UpstreamCalled /\ edge.up.net = "throw"
       \/ /\ UpstreamAnswered
          /\ edge.up.json.kind = "notjson"
          /\ edge.variant = "proxy" \/ HttpOk(edge.up.status)
       \/ /\ UpstreamAnswered
          /\ edge.variant # "proxy"
          /\ ~HttpOk(edge.up.status)
          /\ edge.up.status \notin MappedStatuses(edge.variant)
       \/ /\ UpstreamAnswered
          /\ edge.variant = "proxy"
          /\ edge.up.json.kind = "obj"
          /\ LET statusCode == ProxyDecoded(edge.up).statusCode IN
             /\ statusCode >= 400 \/ ~HttpOk(edge.up.status)
             /\ statusCode \notin MappedStatuses("proxy")

\* C13: whenever an error is thrown while an edge handler processes a request,
\* the handler answers with status 500 and a body {error, analytics} whose
\* analytics has input, output and total tokens 0 and error = true.
C13_ThrownErrorGives500 ==
    ErrorThrown =>
        /\ edge.out.status = 500
        /\ Truthy(edge.out.error)
        /\ edge.out.analytics.present
        /\ edge.out.analytics.input_tokens = 0
        /\ edge.out.analytics.output_tokens = 0
        /\ edge.out.analytics.total_tokens = 0
        /\ edge.out.analytics.error

\* C13 witness: the Lambda proxy handler got an upstream body that is not
\* JSON and answered 500 with the zeroed analytics record.
C13_Witness ==
    /\ edge.variant = "proxy"
    /\ UpstreamAnswered /\ edge.up.json.kind = "notjson"
    /\ edge.out.status = 500
    /\ edge.out.analytics.present /\ edge.out.analytics.error
    /\ edge.out.analytics.total_tokens = 0


\* the handler answered with a chat result
EdgeSucceeded == edge.variant # "none" /\ edge.out.status = 200

\* the sources of the upstream body the handler decoded
UpstreamSources ==
    IF edge.variant = "proxy" THEN ProxyDecoded(edge.up).p.sources
    ELSE edge.up.json.p.sources

\* C15 (as stated): for every department that is not a key of the lookup
\* table the handler uses the generic system prompt, and the canned sources
\* list it attaches is empty.
C15_UnknownDepartmentGeneric ==
    (edge.variant # "none" /\ edge.req.kind = "ok"
        /\ edge.req.department \notin KnownDepartments) =>
        /\ edge.system # Absent => edge.system = GenericPrompt
        /\ (EdgeSucceeded /\ (edge.variant = "proxy" => UpstreamSources.kind # "list"))
              => edge.out.sources = EmptySources

\* C16 (as stated): in every variant a successful response carries the
\* upstream's sources whenever the upstream supplied a list, and otherwise
\* the canned list of the department: two entries for a known department,
\* empty for an unknown one.
C16_UpstreamSourcesElseCanned ==
    EdgeSucceeded =>
        IF UpstreamSources.kind = "list"
           THEN edge.out.sources = UpstreamSources
        ELSE IF edge.req.department \in KnownDepartments
           THEN edge.out.sources = SourceList(edge.req.department, 2)
        ELSE edge.out.sources = EmptySources

\* ceil(length / 4)
CeilOfQuarter(length) == CHOOSE n \in 0..length : 4 * n >= length /\ 4 * (n - 1) < length

\* the gateway or the Lambda handler computed a token estimate
Estimated == EdgeSucceeded /\ edge.variant \in {"gateway", "lambda"}

\* C20 (as stated): the input token estimate is ceil(L / 4), L being the
\* length of all message contents plus the length of the system prompt and
\* nothing else; the estimate of the empty text is 0.
C20_EstimateCountsOnlyContents ==
    Estimated =>
        /\ edge.out.analytics.input_tokens
              = CeilOfQuarter(SumLengths(edge.req.messages)
                              + PromptLength(edge.req.department))
        /\ edge.out.content = 0 => edge.out.analytics.output_tokens = 0

\* C20 (amended): the input token estimate is ceil(L / 4), L being the length
\* of all message contents, plus one separating space between consecutive
\* messages, plus the length of the system prompt; the estimate of the empty
\* text is 0.
C20_EstimateCountsSeparators ==
    Estimated =>
        /\ edge.out.analytics.input_tokens
              = CeilOfQuarter(SumLengths(edge.req.messages)
                              + (IF Len(edge.req.messages) > 1
                                    THEN Len(edge.req.messages) - 1 ELSE 0)
                              + PromptLength(edge.req.department))
        /\ edge.out.content = 0 => edge.out.analytics.output_tokens = 0

\* C20 witness: an estimate over two messages in which the separating space
\* makes a token of difference, next to an empty answer estimated at 0.
C20_Witness ==
    /\ Estimated
    /\ Len(edge.req.messages) = 2
    /\ edge.out.analytics.input_tokens
          = 1 + CeilOfQuarter(SumLengths(edge.req.messages)
                              + PromptLength(edge.req.department))
    /\ edge.out.content = 0 /\ edge.out.analytics.output_tokens = 0

\* the analytics object of the upstream body the handler decoded
UpstreamAnalytics ==
    IF edge.variant = "proxy" THEN ProxyDecoded(edge.up).p.analytics
    ELSE edge.up.json.p.analytics

\* the length/4 estimates of the handled request and of its answer
EstimatedInput == InputTokens(edge.req.messages, edge.req.department)
EstimatedOutput == estimateTokens(edge.out.content)

\* a provider-reported count when there is one, the estimate otherwise
ReportedOrElse(reported, estimate) == IF reported # NoNum THEN reported ELSE estimate

\* C21 (as stated): in the analytics record of a successful turn each token
\* count (input, output, total) is the provider-reported value when the
\* upstream supplied one, and the handler's length/4 estimate otherwise.
C21_ProviderCountsElseEstimate ==
    EdgeSucceeded =>
        /\ edge.out.analytics.input_tokens
              = ReportedOrElse(UpstreamAnalytics.input_tokens, EstimatedInput)
        /\ edge.out.analytics.output_tokens
              = ReportedOrElse(UpstreamAnalytics.output_tokens, EstimatedOutput)
        /\ edge.out.analytics.total_tokens
              = ReportedOrElse(UpstreamAnalytics.total_tokens,
                               edge.out.analytics.input_tokens
                                   + edge.out.analytics.output_tokens)

\* ======================================================================
\* The analytics hook (useAnalytics, part_003)
\* ======================================================================
\* Timestamps are whole hours since the epoch, UTC.
MaxTracked == 3

TzOffsets == {0, 5}

Ratings == {"like", "dislike"}

\* AnalyticsMetadata as far as the dashboard looks at it
TrackedRecords ==
    [present : {TRUE}, session_id : SessionIds, total_tokens : {10, 20},
     timestamp : {20, 25}]

\* part_003 line 72: new Date(timestamp).toISOString().split("T")[0], the
\* number of the UTC day
IsoDate(timestamp) == timestamp \div 24

\* the number of the day on the user's calendar (the time zone getHours()
\* of line 65 uses)
LocalDate(timestamp, offset) == (timestamp + offset) \div 24

\* part_003 lines 36-40 without the search for an existing record
UpsertFeedback_AlwaysAppend(records, messageId, rating) ==
    Append(records, [messageId |-> messageId, rating |-> rating])

\* part_003 lines 36-40: the updater of trackFeedback()
UpsertFeedback(records, messageId, rating) ==
    IF \E i \in 1..Len(records) : records[i].messageId = messageId
       THEN [i \in 1..Len(records) |->
               IF records[i].messageId = messageId
                  THEN [records[i] EXCEPT !.rating = rating]
                  ELSE records[i]]
       ELSE Append(records, [messageId |-> messageId, rating |-> rating])

\* the rating the feedback list holds for a message id, Absent if none
RatingOf(records, messageId) ==
    IF \E i \in 1..Len(records) : records[i].messageId = messageId
       THEN (CHOOSE r \in Ratings :
                \E i \in 1..Len(records) :
                    records[i].messageId = messageId /\ records[i].rating = r)
       ELSE Absent

\* part_003 lines 34-42
trackFeedback(messageId, rating) ==
    /\ feedbackRecords' = UpsertFeedback(feedbackRecords, messageId, rating)
    /\ feedbackLog' = [feedbackLog EXCEPT ![messageId] =
                         [rating |-> rating,
                          changed |-> RatingOf(feedbackRecords, messageId)
                                         \notin {Absent, rating}]]
    /\ dashboard' = NoDashboard

\* trackFeedback() called on its own
TrackFeedback(messageId, rating) ==
    /\ trackFeedback(messageId, rating)
    /\ UNCHANGED <<authVars, apiVars, useAuthVars, chatVars, edgeVars, sessionIds, tzOffset>>

\* part_003 lines 28-31
TrackAnalytics ==
    /\ Len(analyticsHistory) < MaxTracked
    /\ \E a \in TrackedRecords : trackAnalytics(a)
    /\ UNCHANGED <<authVars, apiVars, useAuthVars, edgeVars, feedbackVars, analyticsConfigured,
                   sessStore, messages, isLoading, error, sessionIdRef, turn, save, sends>>

RECURSIVE SumTokens(_)
\* part_003 line 47
SumTokens(history) ==
    IF history = <<>> THEN 0
    ELSE Head(history).total_tokens + SumTokens(Tail(history))

\* part_003 lines 70-78 with one bucket per record
DailyUsage_NoMerge(history, daily) ==
    daily \o [i \in 1..Len(history) |->
                [date |-> IsoDate(history[i].timestamp), messages |-> 1,
                 tokens |-> history[i].total_tokens]]

RECURSIVE DailyUsage(_, _)
\* part_003 lines 70-82: the daily buckets for the rest of the history, daily
\* being the buckets made so far, in the order their dates were first seen
DailyUsage(history, daily) ==
    IF history = <<>> THEN daily
    ELSE LET a == Head(history)
             date == IsoDate(a.timestamp)
         IN  IF \E i \in 1..Len(daily) : daily[i].date = date
                THEN DailyUsage(Tail(history),
                        [i \in 1..Len(daily) |->
                            IF daily[i].date = date
                               THEN [date |-> date,
                                     messages |-> daily[i].messages + 1,
                                     tokens |-> daily[i].tokens + a.total_tokens]
                               ELSE daily[i]])
                ELSE DailyUsage(Tail(history),
                        Append(daily, [date |-> date, messages |-> 1,
                                       tokens |-> a.total_tokens]))

\* part_003 lines 45-102
getAggregatedAnalytics(history, ids) ==
    [fresh |-> TRUE,
     totalMessages |-> Len(history),
     totalTokens |-> SumTokens(history),
     sessionsCount |-> Cardinality(ids),
     dailyUsage |-> DailyUsage(history, <<>>)]

\* the dashboard is rendered
GetAggregatedAnalytics ==
    /\ ~dashboard.fresh
    /\ dashboard' = getAggregatedAnalytics(analyticsHistory, sessionIds)
    /\ UNCHANGED <<authVars, apiVars, useAuthVars, chatVars, edgeVars, sessionIds, feedbackVars>>

\* part_003 lines 110-114
ClearAnalytics ==
    /\ analyticsHistory # <<>> \/ feedbackRecords # <<>>
    /\ analyticsHistory' = <<>>
    /\ feedbackRecords' = <<>>
    /\ sessionIds' = {}
    /\ feedbackLog' = [id \in MessageIds |-> NoFeedback]
    /\ dashboard' = NoDashboard
    /\ UNCHANGED <<authVars, apiVars, useAuthVars, edgeVars, tzOffset, analyticsConfigured,
                   sessStore, messages, isLoading, error, sessionIdRef, turn, save, sends>>

AnalyticsInitWith(offset) ==
    /\ sessionIds = {}
    /\ feedbackRecords = <<>>
    /\ feedbackLog = [id \in MessageIds |-> NoFeedback]
    /\ tzOffset = offset
    /\ dashboard = NoDashboard

AnalyticsInit == AnalyticsInitWith(0)

NextAnalytics ==
    \/ TrackAnalytics
    \/ \E messageId \in MessageIds, rating \in Ratings : TrackFeedback(messageId, rating)
    \/ GetAggregatedAnalytics
    \/ ClearAnalytics

\* ======================================================================
\* Claims about the analytics hook, checked under SpecAnalytics
\* ======================================================================
\* the positions of the feedback list that hold a record for a message id
FeedbackFor(messageId) ==
    { i \in 1..Len(feedbackRecords) : feedbackRecords[i].messageId = messageId }

\* C14: after any sequence of trackFeedback calls the feedback list holds at
\* most one record per message id, and the record of an id holds the rating
\* of the latest submission for that id.
C14_OneFeedbackPerMessage ==
    \A id \in MessageIds :
        /\ Cardinality(FeedbackFor(id)) <= 1
        /\ feedbackLog[id].rating # Absent =>
              \E i \in FeedbackFor(id) : feedbackRecords[i].rating = feedbackLog[id].rating

\* C14 witness: feedback for message 0 was submitted again with the other
\* rating while the list also holds a record for message 1; the list has two
\* records and the one of message 0 holds the later rating.
C14_Witness ==
    /\ feedbackLog[0].changed
    /\ Len(feedbackRecords) = 2
    /\ \E i \in FeedbackFor(0) : feedbackRecords[i].rating = feedbackLog[0].rating

\* the positions of the history whose record falls on a day, under a way of
\* telling the day of a timestamp
OnUtcDay(day) ==
    { i \in 1..Len(analyticsHistory) : analyticsHistory[i].timestamp \div 24 = day }
OnLocalDay(day) ==
    { i \in 1..Len(analyticsHistory) :
        LocalDate(analyticsHistory[i].timestamp, tzOffset) = day }

RECURSIVE TokensAt(_)
\* the sum of total_tokens over a set of positions of the history
TokensAt(positions) ==
    IF positions = {} THEN 0
    ELSE LET i == CHOOSE j \in positions : TRUE IN
         analyticsHistory[i].total_tokens + TokensAt(positions \ {i})

RECURSIVE BucketSum(_, _)
\* the sum of a field (messages or tokens) over the daily buckets
BucketSum(daily, field) ==
    IF daily = <<>> THEN 0
    ELSE (IF field = "messages" THEN Head(daily).messages ELSE Head(daily).tokens)
         + BucketSum(Tail(daily), field)

\* the daily buckets count every record once
BucketsAddUp ==
    /\ BucketSum(dashboard.dailyUsage, "messages") = dashboard.totalMessages
    /\ BucketSum(dashboard.dailyUsage, "tokens") = dashboard.totalTokens
    /\ dashboard.totalMessages = Len(analyticsHistory)
    /\ dashboard.totalTokens = TokensAt(1..Len(analyticsHistory))

\* there is exactly one bucket holding exactly the given records
OneBucketFor(positions) ==
    /\ positions # {} =>
          \E i \in 1..Len(dashboard.dailyUsage) :
              /\ dashboard.dailyUsage[i].messages = Cardinality(positions)
              /\ dashboard.dailyUsage[i].tokens = TokensAt(positions)
              /\ \A p \in positions :
                    dashboard.dailyUsage[i].date = IsoDate(analyticsHistory[p].timestamp)

Days == 0..2

\* C17 (as stated): the records whose timestamps fall within the same
\* calendar day of the user are in a single daily bucket counting them and
\* summing their total_tokens, and the buckets add up to the totals.
C17_SameCalendarDayOneBucket ==
    dashboard.fresh =>
        /\ \A day \in Days : OneBucketFor(OnLocalDay(day))
        /\ BucketsAddUp

\* C17 (amended): the records whose timestamps fall on the same UTC date are
\* in a single daily bucket counting them and summing their total_tokens,
\* there are no other buckets, and the buckets add up to the totals.
C17_SameUtcDateOneBucket ==
    dashboard.fresh =>
        /\ \A day \in Days : OneBucketFor(OnUtcDay(day))
        /\ Len(dashboard.dailyUsage) = Cardinality({ day \in Days : OnUtcDay(day) # {} })
        /\ BucketsAddUp

\* C17 witness: three records of the same UTC date were aggregated into one
\* bucket of three messages.
C17_Witness ==
    /\ dashboard.fresh
    /\ Len(analyticsHistory) = 3
    /\ Cardinality(OnUtcDay(1)) = 3
    /\ Len(dashboard.dailyUsage) = 1
    /\ dashboard.dailyUsage[1].messages = 3
    /\ dashboard.dailyUsage[1].tokens = TokensAt(1..3)

\* the distinct session_id values of the accumulated analytics list
DistinctSessionIds ==
    { analyticsHistory[i].session_id : i \in 1..Len(analyticsHistory) }

\* C25: after any sequence of trackAnalytics and clearAnalytics calls the
\* sessionsCount reported by getAggregatedAnalytics equals the number of
\* distinct session_id values in the accumulated analytics list.
C25_SessionsCountIsDistinctIds ==
    dashboard.fresh => dashboard.sessionsCount = Cardinality(DistinctSessionIds)

\* C25 witness: three records were tracked for two sessions and the
\* dashboard reports two sessions.
C25_Witness ==
    /\ dashboard.fresh
    /\ Len(analyticsHistory) = 3
    /\ Cardinality(DistinctSessionIds) = 2
    /\ dashboard.sessionsCount = 2

\* ======================================================================
\* The chat hook with its feedback handler and overlapping sends
\* ======================================================================
\* sendMessage() has no guard against a call made while another one is in
\* flight: each slot is one call of sendMessage().
HookSlots == {1, 2}

\* useAwsChat.ts line 89 with every field of the rated message reset
withFeedback_ResetContent(prev, messageId, feedback) ==
    [i \in 1..Len(prev) |->
        IF prev[i].id = messageId
           THEN [prev[i] EXCEPT !.feedback = feedback, !.content = ""]
           ELSE prev[i]]

\* useAwsChat.ts lines 88-90: the updater of handleFeedback()
withFeedback(prev, messageId, feedback) ==
    [i \in 1..Len(prev) |->
        IF prev[i].id = messageId
           THEN [prev[i] EXCEPT !.feedback = feedback]
           ELSE prev[i]]

\* useAwsChat.ts lines 86-94, for the id of a message on display
HandleFeedback(messageId, feedback) ==
    /\ \E i \in 1..Len(messages) : messages[i].id = messageId
    /\ messages' = withFeedback(messages, messageId, feedback)
    /\ trackFeedback(messageId, feedback)
    /\ UNCHANGED <<authVars, apiVars, useAuthVars, edgeVars, sessionIds, tzOffset,
                   analyticsConfigured, sessStore, isLoading, error, sessionIdRef,
                   analyticsHistory, turn, save, sends>>

\* the response of the chat endpoint seen by overlapping sends
AnswerResponses ==
    { [status |-> 200,
       json |-> ChatJson("obj", NoNum, NoChatText,
                         ChatPayload(Absent, Absent, "hi", Absent, NoAnalytics, Absent))] }

AnswerComplete(t) == ChatCompleteWith(t, AnswerResponses)

\* slot t has made no call of sendMessage() yet
Unused(t) == turn[t].pc = "idle" /\ turn[t].last = "none"

\* The hook of a user who is not logged in, analytics endpoint not
\* configured, over two calls of sendMessage(): the second may be made while
\* the first is in flight or after it; feedback may be given and the
\* transcript cleared at any moment.
NextHook ==
    \/ Tick
    \/ \E t \in HookSlots :
          \/ (Unused(t) /\ SendMessage(t))
          \/ ChatFetch(t)
          \/ AnswerComplete(t) \/ ChatNetFail(t)
    \/ \E messageId \in MessageIds, feedback \in Ratings :
          HandleFeedback(messageId, feedback)
    \/ ClearMessages

\* ======================================================================
\* Claims about the chat hook's transcript, checked under SpecHook
\* ======================================================================
\* old is a prefix of new when feedback is left out of the comparison
PrefixUpToFeedback(old, new) ==
    /\ Len(old) <= Len(new)
    /\ \A i \in 1..Len(old) : [new[i] EXCEPT !.feedback = old[i].feedback] = old[i]

\* C23 (as stated): across every operation of the chat hook the previous
\* message list is a prefix of the new one up to feedback: no message is
\* removed or reordered and only the feedback of a message changes.
C23_TranscriptAppendOnly ==
    [][PrefixUpToFeedback(messages, messages')]_vars

\* C23 (amended): across sendMessage, its completion and handleFeedback the
\* previous message list is a prefix of the new one up to feedback;
\* clearMessages alone removes messages, and it removes all of them.
C23_AppendOnlyUntilCleared ==
    [][IF messages' = <<>> /\ messages # <<>>
          THEN ClearMessages
          ELSE PrefixUpToFeedback(messages, messages')]_vars

\* C23 witness: a transcript of a user message and an answer, the answer
\* rated afterwards and everything else as it was created.
C23_Witness ==
    /\ Len(messages) = 2
    /\ messages[1] = UserMessage(0, "q")
    /\ messages[2].id = 1 /\ messages[2].role = "assistant"
    /\ messages[2].feedback = "like" /\ messages[2].content # ""

\* a sendMessage() call of slot t has not settled
InFlight(t) == turn[t].pc \in {"headers", "fetch"}

\* C27 (as stated): isLoading is true in every state in which at least one
\* sendMessage request is in flight, also when a second sendMessage was
\* started before the first one completed.
C27_LoadingWhileInFlight ==
    (\E t \in HookSlots : InFlight(t)) => isLoading

\* the positions whose feedback changes in this step
Rated == { i \in 1..Len(messages) : messages'[i].feedback # messages[i].feedback }

\* C28 (as stated): the messages of the transcript have pairwise distinct
\* ids after any sequence of sends and responses, so that handleFeedback
\* changes the feedback of exactly one message.
C28_DistinctIds ==
    [][/\ \A i, j \in 1..Len(messages') :
             i # j => messages'[i].id # messages'[j].id
       /\ (Len(messages') = Len(messages) /\ Rated # {}) => Cardinality(Rated) = 1
      ]_vars

\* ======================================================================
\* The auth hook (useAwsAuth, part_004) over the auth client
\* ======================================================================
\* part_004 lines 27-30: the state of the hook before its effect has run
UseAuthIdle ==
    [mounted |-> FALSE, session |-> NoSession, user |-> Absent,
     isLoading |-> TRUE, error |-> Absent]

UseAuthInit == useAuth = UseAuthIdle

\* part_004 line 100
isAuthenticated == useAuth.session # NoSession /\ Truthy(useAuth.user)

\* part_004 lines 33-40: the effect run on mount
Mount ==
    /\ ~useAuth.mounted
    /\ LET stored == getStoredSession(storage, now) IN
        /\ storage' = StorageAfterGet(storage, now)
        /\ useAuth' = [useAuth EXCEPT !.mounted = TRUE,
                                      !.session = stored,
                                      !.user = stored.user,
                                      !.isLoading = FALSE]
    /\ UNCHANGED <<now, authPc, authRet, authIn, rf, lo,
                   apiVars, chatVars, edgeVars, analyticsVars>>

\* part_004 lines 42-47 and 59-64: login / signup of the hook up to the await
UseAuthStart(k) ==
    /\ useAuth.mounted
    /\ useAuth' = [useAuth EXCEPT !.isLoading = TRUE, !.error = Absent]
    /\ AuthStartDo(k)
    /\ UNCHANGED <<apiVars, chatVars, edgeVars, analyticsVars>>

\* part_004 lines 48-56 and 65-73: the call of the auth client has settled
UseAuthSettled(k) ==
    /\ useAuth' = IF authRet.ok
                     THEN [useAuth EXCEPT !.session = authRet.session,
                                          !.user = authRet.session.user,
                                          !.isLoading = FALSE]
                     ELSE [useAuth EXCEPT !.error = authRet.err, !.isLoading = FALSE]
    /\ AuthReturnDo(k)
    /\ UNCHANGED <<apiVars, chatVars, edgeVars, analyticsVars>>

\* part_004 lines 76-81: logout of the hook up to the await
UseAuthLogout ==
    /\ useAuth.mounted
    /\ useAuth' = [useAuth EXCEPT !.isLoading = TRUE, !.error = Absent]
    /\ LogoutStartDo
    /\ UNCHANGED <<apiVars, chatVars, edgeVars, analyticsVars>>

\* part_004 lines 82-89: logout() of the auth client has settled
UseAuthLoggedOut ==
    /\ useAuth' = IF lo.result = "resolved"
                     THEN [useAuth EXCEPT !.session = NoSession, !.user = Absent,
                                          !.isLoading = FALSE]
                     ELSE [useAuth EXCEPT !.error = "Logout failed", !.isLoading = FALSE]
    /\ LogoutReturnDo
    /\ UNCHANGED <<apiVars, chatVars, edgeVars, analyticsVars>>

\* the responses of the auth endpoints seen by the hook and by a chat send
UseAuthResponses ==
    HookAuthResponses
    \cup { [ok |-> TRUE,
            json |-> DirectBody(AuthPayload(Absent, Absent, "t1", "r1", 300, "u1"))] }

\* no login, signup or logout of the hook is in progress
UseAuthQuiet ==
    /\ \A k \in AuthKinds : authPc[k] = "idle"
    /\ lo.pc = "idle"

\* the caller whose refreshSession() runs next to the hook: getHeaders() of
\* a chat send (part_002 line 66)
Sender == "chat1"

\* part_002 lines 66-68: refreshSession() has settled and getHeaders() reads
\* the token
GetHeaders(c) ==
    /\ rf[c].pc = "done"
    /\ rf' = [rf EXCEPT ![c] = RfIdle]
    /\ authIn' = SeenNothing
    /\ storage' = StorageAfterGet(storage, now)
    /\ UNCHANGED <<now, authPc, authRet, lo, nonAuthVars>>

\* The hook of a page on which chat sends refresh the session: the user
\* starts a login, signup or logout when none of them is in progress, while
\* the refreshSession() call of a chat send may be in flight at any moment.
NextUseAuth ==
    \/ Tick
    \/ Mount
    \/ \E k \in AuthKinds : (UseAuthQuiet /\ UseAuthStart(k)) \/ UseAuthSettled(k)
    \/ LoginCompleteWith(UseAuthResponses) \/ LoginNetFail
    \/ SignupCompleteWith(UseAuthResponses) \/ SignupNetFail
    \/ (UseAuthQuiet /\ UseAuthLogout) \/ LogoutComplete \/ UseAuthLoggedOut
    \/ RefreshStart(Sender) \/ RefreshCompleteWith(Sender, UseAuthResponses)
    \/ RefreshNetFail(Sender) \/ GetHeaders(Sender)

\* ======================================================================
\* Claims about the auth hook and the session store, checked under
\* SpecUseAuth
\* ======================================================================
\* the stored session has expired
Expired == storage # NoSession /\ storage.expiresAt < now

\* the steps in which getStoredSession() is called
Mounts == ~useAuth.mounted /\ useAuth'.mounted
LogoutCalled == lo.pc = "idle" /\ lo'.pc # "idle"
HeadersRead == rf[Sender].pc = "done" /\ rf'[Sender].pc = "idle"

\* C24: getStoredSession() never returns a session whose expiresAt is
\* earlier than the current time: reading such a session deletes it from
\* storage and gives null, so that getAuthToken() and getCurrentUser() never
\* expose the token or the user of an expired session.
C24_ExpiredSessionNeverReturned ==
    [][/\ Expired =>
             /\ getStoredSession(storage, now) = NoSession
             /\ ~Truthy(getAuthToken(storage, now))
             /\ ~Truthy(getCurrentUser(storage, now))
       /\ (Expired /\ Mounts) =>
             /\ useAuth'.session = NoSession /\ ~Truthy(useAuth'.user)
             /\ storage' = NoSession
       /\ (Expired /\ RefreshCalled(Sender)) =>
             /\ rf'[Sender].ret = NoSession /\ ~rf'[Sender].issued
             /\ storage' = NoSession
       /\ (Expired /\ LogoutCalled) => ~Truthy(lo'.token) /\ lo'.pc = "done"
       /\ (Expired /\ HeadersRead) => storage' = NoSession
       /\ (~Expired /\ Mounts) => useAuth'.session = storage /\ storage' = storage
      ]_vars

\* C24 witness: the session the hook took from storage has expired since;
\* the refreshSession() call of a chat send read it, got null without a
\* request being made, and the stored session is gone.
C24_Witness ==
    /\ useAuth.session # NoSession /\ useAuth.session.expiresAt < now
    /\ rf[Sender].pc = "done" /\ ~rf[Sender].issued /\ rf[Sender].ret = NoSession
    /\ storage = NoSession
    /\ UseAuthQuiet

\* C26 (as stated): if logout() runs while a refreshSession() call is
\* awaiting its response then, once both have completed and with no login or
\* signup in between, no session is present in storage.
C26_LogoutIsFinal ==
    (lo.pc = "done" /\ rf[Sender].pc = "done") => storage = NoSession

\* C29 (as stated): in every reachable state in which the hook reports
\* isAuthenticated = true an unexpired session is present in storage.
C29_AuthenticatedHasSession ==
    isAuthenticated => storage # NoSession /\ storage.expiresAt >= now

\* ======================================================================
\* Specifications
\* ======================================================================
Init == AuthInit /\ ApiInit /\ UseAuthInit /\ ChatInit /\ EdgeInit /\ AnalyticsInit

SpecAuth == Init /\ [][NextAuth]_vars

SpecApi == Init /\ [][NextApi]_vars

\* a chat starts logged out or logged in, analytics endpoint set or not
InitChat ==
    /\ \E session \in ChatInitSessions : AuthInitWith(session)
    /\ ApiInit /\ UseAuthInit
    /\ \E configured \in BOOLEAN : ChatInitWith(configured)
    /\ EdgeInit /\ AnalyticsInit

SpecChat == InitChat /\ [][NextChat]_vars

\* an edge handler is given any request and any upstream answer
InitEdge ==
    /\ AuthInit /\ ApiInit /\ UseAuthInit /\ ChatInit /\ AnalyticsInit
    /\ \E req \in EdgeRequests, up \in Upstreams : edge = EdgeIdle(req, up)

SpecEdge == InitEdge /\ [][NextEdge]_vars

\* the dashboard of a user in any of the time zones
InitAnalytics ==
    /\ AuthInit /\ ApiInit /\ UseAuthInit /\ ChatInit /\ EdgeInit
    /\ \E offset \in TzOffsets : AnalyticsInitWith(offset)

SpecAnalytics == InitAnalytics /\ [][NextAnalytics]_vars

\* a chat of a user who is not logged in, analytics endpoint not configured
InitHook == Init

SpecHook == InitHook /\ [][NextHook]_vars

\* the page is loaded logged out or with a session left by an earlier visit
InitUseAuth ==
    /\ \E session \in ChatInitSessions : AuthInitWith(session)
    /\ ApiInit /\ UseAuthInit /\ ChatInit /\ EdgeInit /\ AnalyticsInit

SpecUseAuth == InitUseAuth /\ [][NextUseAuth]_vars

====
